---------------------------- MODULE Spec2Model ----------------------------
(***************************************************************************)
(* A model of ImageAsText (src/main.rs): the pipeline of main (argument    *)
(* parsing, input reading, decoding, optional resizing, threshold parsing, *)
(* rendering, printing) and the pure functions pixel_brightness, is_dark,  *)
(* to_braille, to_blocks and to_ascii.                                     *)
(*                                                                         *)
(* Pixels are tuples <<R, G, B, A>> with channels in 0..255.  An image is  *)
(* a record [width, height, px] with px a function from the in-bounds      *)
(* positions <<x, y>> (0-based) to pixels.  A character of the rendered    *)
(* text is Char(s) for a literal character, or the entry of one of the     *)
(* braille crate's tables, identified by the table and its indices.        *)
(***************************************************************************)
EXTENDS Integers, Sequences, FiniteSets, TLC

(***************************************************************************)
(* Single-precision arithmetic.  Every f32 value the luminance computation *)
(* meets is a non-negative multiple of 2^-27 below 512, so a value is kept *)
(* as [i |-> integer part, f |-> fraction in units of 2^-27]: both fields  *)
(* stay inside the 32-bit integers of the model checker.                   *)
(***************************************************************************)
Unit == 8192 * 16384         \* 2^27

Pow2(n) == IF n = 0 THEN 1
           ELSE IF n = 1 THEN 2
           ELSE IF n = 2 THEN 4
           ELSE IF n = 3 THEN 8
           ELSE IF n = 4 THEN 16
           ELSE IF n = 5 THEN 32
           ELSE IF n = 6 THEN 64
           ELSE IF n = 7 THEN 128
           ELSE IF n = 8 THEN 256
           ELSE IF n = 9 THEN 512
           ELSE IF n = 10 THEN 1024
           ELSE IF n = 11 THEN 2048
           ELSE 4096

\* The number of low bits (of the 2^-27 fraction) an f32 of this magnitude
\* cannot hold: the unit in the last place of a value in [2^e, 2^(e+1)) is
\* 2^(e-23), which is 2^(e+4) units of 2^-27.
DroppedBits(v) ==
    IF v.i >= 256 THEN 12
    ELSE IF v.i >= 128 THEN 11
    ELSE IF v.i >= 64 THEN 10
    ELSE IF v.i >= 32 THEN 9
    ELSE IF v.i >= 16 THEN 8
    ELSE IF v.i >= 8 THEN 7
    ELSE IF v.i >= 4 THEN 6
    ELSE IF v.i >= 2 THEN 5
    ELSE IF v.i >= 1 THEN 4
    ELSE IF v.f >= 67108864 THEN 3
    ELSE IF v.f >= 33554432 THEN 2
    ELSE IF v.f >= 16777216 THEN 1
    ELSE 0

\* Round to nearest f32, ties to even (the rounding of every f32 operation).
F32Round(v) ==
    LET s    == DroppedBits(v)
        p    == Pow2(s)
        q    == v.f \div p
        r    == v.f % p
        up   == IF s = 0 THEN 0
                ELSE IF 2 * r > p \/ (2 * r = p /\ q % 2 = 1) THEN 1 ELSE 0
        f2   == (q + up) * p
    IN  IF f2 >= Unit THEN [i |-> v.i + 1, f |-> f2 - Unit]
        ELSE [i |-> v.i, f |-> f2]

\* c * n in f32, for an f32 constant c = c27 / 2^27 and an integer n in 0..255
\* (u8 as f32 is exact).  The exact product is formed in two halves.
F32Mul(c27, n) ==
    LET H   == c27 \div 8192
        L   == c27 % 8192
        A   == (n * H) \div 16384
        B   == (n * H) % 16384
        low == B * 8192 + n * L
    IN  F32Round([i |-> A + (low \div Unit), f |-> low % Unit])

\* a + b in f32.
F32Add(a, b) ==
    LET f == a.f + b.f
    IN  F32Round([i |-> a.i + b.i + (f \div Unit), f |-> f % Unit])

\* `lum as u8`: truncation toward zero, saturating at 255.
AsU8(v) == IF v.i > 255 THEN 255 ELSE v.i

\* The f32 constants of src/main.rs, lines 9-11, as multiples of 2^-27:
\* 0.299f32 = 40131100 / 2^27, 0.587f32 = 78785808 / 2^27,
\* 0.114f32 = 15300821 / 2^27.
RED_LUM   == 40131100
GREEN_LUM == 78785808
BLUE_LUM  == 15300821
THRESHOLD == 96

ASCII_CHARS == <<" ", ".", ",", "-", "/", "O", "#", "@">>

\* The expression of lines 107-111 and 121-125 (written twice in the source).
LumF32(pixel) ==
    F32Add(F32Add(F32Mul(RED_LUM, pixel[1]), F32Mul(GREEN_LUM, pixel[2])),
           F32Mul(BLUE_LUM, pixel[3]))

\* Rounding to the nearest integer where the source truncates.
pixel_brightness_rounded(pixel) ==
    LET v == LumF32(pixel)
    IN  AsU8([i |-> IF 2 * v.f >= Unit THEN v.i + 1 ELSE v.i, f |-> 0])

pixel_brightness(pixel) == AsU8(LumF32(pixel))


(***************************************************************************)
(* Characters and images.                                                  *)
(***************************************************************************)
Char(s) == <<"char", <<s>>>>
NL      == Char("\n")

\* BOX[a][b][c][d] and BRAILLE[a]...[h] of the braille crate: the entry at
\* the given indices (the tables themselves are not part of this program).
BOX(ix)     == <<"BOX", ix>>
BRAILLE(ix) == <<"BRAILLE", ix>>

Positions(w, h) == (0 .. w - 1) \X (0 .. h - 1)

in_bounds(image, x, y) == x < image.width /\ y < image.height

get_pixel(image, x, y) == image.px[<<x, y>>]

RECURSIVE Flatten(_)
Flatten(ss) == IF ss = <<>> THEN <<>> ELSE Head(ss) \o Flatten(Tail(ss))

\* `if double { out.push(ch); } out.push(ch);`
Push(ch, double) == IF double THEN <<ch, ch>> ELSE <<ch>>

\* `n as f32`: exact below 2^24, rounded to 24 significant bits above.
U32AsF32(n) ==
    IF n < 16777216 THEN n
    ELSE LET s  == CHOOSE k \in 1 .. 7 : n < 16777216 * Pow2(k) /\ n >= 8388608 * Pow2(k)
             p  == Pow2(s)
             q  == n \div p
             r  == n % p
             up == IF 2 * r > p \/ (2 * r = p /\ q % 2 = 1) THEN 1 ELSE 0
         IN  (q + up) * p

\* `(n as f32 / d).ceil() as u32` for d a power of two (the division is exact).
CeilDivF32(n, d) == (U32AsF32(n) + d - 1) \div d

(***************************************************************************)
(* The classifier and the three renderers.                                 *)
(***************************************************************************)
\* `<=` where the source has `<`.
is_dark_inclusive(image, x, y, t) ==
    LET pixel == IF in_bounds(image, x, y) THEN get_pixel(image, x, y)
                 ELSE <<255, 255, 255, 0>>
    IN  IF AsU8(LumF32(pixel)) <= t THEN 1 ELSE 0

\* Transparent black where the source has transparent white.
is_dark_oob(image, x, y, t) ==
    LET pixel == IF in_bounds(image, x, y) THEN get_pixel(image, x, y)
                 ELSE <<0, 0, 0, 0>>
    IN  IF AsU8(LumF32(pixel)) < t THEN 1 ELSE 0

is_dark(image, x, y, t) ==
    LET pixel == IF in_bounds(image, x, y) THEN get_pixel(image, x, y)
                 ELSE <<255, 255, 255, 0>>
    IN  IF AsU8(LumF32(pixel)) < t THEN 1 ELSE 0

\* The positions a braille cell with corner (x, y) samples, in index order.
BrailleSamples(x, y) ==
    << <<x + 0, y + 0>>, <<x + 1, y + 0>>,
       <<x + 0, y + 1>>, <<x + 1, y + 1>>,
       <<x + 0, y + 2>>, <<x + 1, y + 2>>,
       <<x + 0, y + 3>>, <<x + 1, y + 3>> >>

\* The positions a block cell with corner (x, y) samples, in index order.
BoxSamples(x, y) ==
    << <<x + 0, y + 0>>, <<x + 1, y + 0>>,
       <<x + 0, y + 1>>, <<x + 1, y + 1>> >>

Darkness(image, samples, t) ==
    [k \in 1 .. Len(samples) |-> is_dark(image, samples[k][1], samples[k][2], t)]

\* The cell rows two pixels apart, as in to_blocks, where the source has four.
to_braille_step2(image, t, double) ==
    LET ch == CeilDivF32(image.height, 4)
        cw == CeilDivF32(image.width, 2)
        Cell(cx, cy) == BRAILLE(Darkness(image, BrailleSamples(cx * 2, cy * 2), t))
        Row(cy) == Flatten([k \in 1 .. cw |-> Push(Cell(k - 1, cy), double)]) \o <<NL>>
    IN  Flatten([k \in 1 .. ch |-> Row(k - 1)])

to_braille(image, t, double) ==
    LET ch == CeilDivF32(image.height, 4)
        cw == CeilDivF32(image.width, 2)
        Cell(cx, cy) == BRAILLE(Darkness(image, BrailleSamples(cx * 2, cy * 4), t))
        Row(cy) == Flatten([k \in 1 .. cw |-> Push(Cell(k - 1, cy), double)]) \o <<NL>>
    IN  Flatten([k \in 1 .. ch |-> Row(k - 1)])

\* The `if double` push left out.
to_blocks_single(image, t, double) ==
    LET ch == CeilDivF32(image.height, 2)
        cw == CeilDivF32(image.width, 2)
        Cell(cx, cy) == BOX(Darkness(image, BoxSamples(cx * 2, cy * 2), t))
        Row(cy) == Flatten([k \in 1 .. cw |-> <<Cell(k - 1, cy)>>]) \o <<NL>>
    IN  Flatten([k \in 1 .. ch |-> Row(k - 1)])

to_blocks(image, t, double) ==
    LET ch == CeilDivF32(image.height, 2)
        cw == CeilDivF32(image.width, 2)
        Cell(cx, cy) == BOX(Darkness(image, BoxSamples(cx * 2, cy * 2), t))
        Row(cy) == Flatten([k \in 1 .. cw |-> Push(Cell(k - 1, cy), double)]) \o <<NL>>
    IN  Flatten([k \in 1 .. ch |-> Row(k - 1)])

\* The glyphs taken from the dense end for dark pixels.
to_ascii_inverted(image, double) ==
    LET Cell(x, y) ==
            LET brightness == pixel_brightness(get_pixel(image, x, y))
            IN  Char(ASCII_CHARS[8 - (brightness \div 32)])
        Row(y) == Flatten([k \in 1 .. image.width |-> Push(Cell(k - 1, y), double)]) \o <<NL>>
    IN  Flatten([k \in 1 .. image.height |-> Row(k - 1)])

to_ascii(image, double) ==
    LET Cell(x, y) ==
            LET brightness == pixel_brightness(get_pixel(image, x, y))
            IN  Char(ASCII_CHARS[(brightness \div 32) + 1])
        Row(y) == Flatten([k \in 1 .. image.width |-> Push(Cell(k - 1, y), double)]) \o <<NL>>
    IN  Flatten([k \in 1 .. image.height |-> Row(k - 1)])

(***************************************************************************)
(* Inputs.  An image is uniform in one colour of a palette except for at   *)
(* most one pixel of another colour.                                       *)
(***************************************************************************)
MaxW   == 3      \* widest image handed to a renderer
MaxH   == 5      \* tallest image handed to a renderer
MaxDim == 2      \* largest width and height of an image main decodes or resizes to
MaxProbeX == 1   \* largest x is_dark is asked about on a 1x1 image
MaxProbeY == 3   \* largest y is_dark is asked about on a 1x1 image

Black == <<0, 0, 0, 255>>
Gray  == <<37, 37, 37, 255>>
Red   == <<255, 0, 0, 255>>
White == <<255, 255, 255, 255>>

ImagesOfSize(w, h, palette) ==
    { [width |-> w, height |-> h,
       px |-> [p \in Positions(w, h) |-> IF p = o THEN c2 ELSE c1]] :
         c1 \in palette, c2 \in palette, o \in Positions(w, h) }

Images(maxw, maxh, palette) ==
    UNION { ImagesOfSize(w, h, palette) : w \in 1 .. maxw, h \in 1 .. maxh }

Uniform(w, h, c) == [width |-> w, height |-> h, px |-> [p \in Positions(w, h) |-> c]]

RenderImages == Images(MaxW, MaxH, {Black, Gray, White})
Thresholds   == {0, 37, THRESHOLD, 255}

Channels   == {0, 37, 128, 255}
LumPixels  == { <<r, g, b, a>> : r \in Channels, g \in Channels, b \in Channels, a \in {0, 255} }

(***************************************************************************)
(* Options: Rust's Option and Result, as a sequence of at most one value.  *)
(***************************************************************************)
None     == <<>>
Some(v)  == <<v>>
IsSome(o) == o # <<>>
Get(o)   == o[1]

(***************************************************************************)
(* u32::from_str and u8::from_str.  A string is a sequence of characters.  *)
(* The parse accepts an optional leading "+" and then one or more decimal  *)
(* digits, and fails when the value overflows the type: the largest value  *)
(* is 10 * q + r.                                                          *)
(***************************************************************************)
DigitChars == <<"0", "1", "2", "3", "4", "5", "6", "7", "8", "9">>
IsDigit(c) == \E d \in 1 .. 10 : DigitChars[d] = c
DigitVal(c) == (CHOOSE d \in 1 .. 10 : DigitChars[d] = c) - 1

RECURSIVE ParseDigits(_, _, _, _)
ParseDigits(s, acc, q, r) ==
    IF s = <<>> THEN Some(acc)
    ELSE IF ~IsDigit(Head(s)) THEN None
    ELSE LET d == DigitVal(Head(s))
         IN  IF acc > q \/ (acc = q /\ d > r) THEN None
             ELSE ParseDigits(Tail(s), acc * 10 + d, q, r)

from_str(s, q, r) ==
    LET digits == IF s # <<>> /\ Head(s) = "+" THEN Tail(s) ELSE s
    IN  IF digits = <<>> THEN None ELSE ParseDigits(digits, 0, q, r)

u32_from_str(s) == from_str(s, 429496729, 5)
u8_from_str(s)  == from_str(s, 25, 5)

RECURSIVE Digits(_)
Digits(n) == IF n < 10 THEN <<DigitChars[n + 1]>>
             ELSE Digits(n \div 10) \o <<DigitChars[(n % 10) + 1]>>

(***************************************************************************)
(* The state of one run of main, and of one call of a pure function.       *)
(***************************************************************************)
VARIABLES
    args,        \* the command line, as clap matches it
    pc,          \* the position of main
    input_data,  \* Option: the bytes read
    image,       \* Option: the decoded (and resized) image
    thresh,      \* Option: the threshold in use
    text,        \* Option: the string the selected renderer returned
    stdout,      \* the characters written to standard output
    error,       \* Option: the clap Error the run exited with
    status,      \* Option: the exit status
    trace,       \* history: the steps of main begun so far, in order
    inp,         \* the arguments of a call of a pure function
    ret          \* the function called and what it returned

mainVars == <<args, pc, input_data, image, thresh, text, stdout, error, status, trace>>
callVars == <<inp, ret>>
vars     == <<args, pc, input_data, image, thresh, text, stdout, error, status, trace, inp, ret>>

MainImages == Images(MaxDim, MaxDim, {Black, Red, White})

SizeStrings      == {<<"x">>} \cup { Digits(n) : n \in 1 .. MaxDim }
ThresholdStrings == {<<"x">>, <<"2", "5", "6">>, <<"0">>, <<"2", "5", "5">>}

Args ==
    [ input     : {".", "image.png"},
      size      : {None} \cup { Some(s) : s \in SizeStrings },
      threshold : {None} \cup { Some(s) : s \in ThresholdStrings },
      double    : BOOLEAN,
      braille   : BOOLEAN,
      blocks    : BOOLEAN ]

\* What the bytes of the input are: an encoded image, or no image at all.
Bytes == {[decodable |-> FALSE, image |-> None]}
            \cup { [decodable |-> TRUE, image |-> Some(im)] : im \in MainImages }

NoCall == [fn |-> "none", at |-> <<>>, val |-> <<>>]
NoInp  == [image |-> None, t |-> 0, double |-> FALSE]

MainInit ==
    /\ args \in Args
    /\ pc = "get_matches"
    /\ input_data = None
    /\ image = None
    /\ thresh = None
    /\ text = None
    /\ stdout = <<>>
    /\ error = None
    /\ status = None
    /\ trace = <<>>

Init == MainInit /\ inp = NoInp /\ ret = NoCall

\* The message written to standard output.
ExitToStdout(step, kind, message) ==
    /\ error' = Some([kind |-> kind, message |-> message])
    /\ status' = Some(1)
    /\ stdout' = stdout \o <<Char(message)>>
    /\ pc' = "exited"
    /\ trace' = Append(trace, step)

\* clap's Error::exit for an error kind reported on standard error: the
\* message goes to standard error and the process exits with status 1.
Exit(step, kind, message) ==
    /\ error' = Some([kind |-> kind, message |-> message])
    /\ status' = Some(1)
    /\ stdout' = stdout
    /\ pc' = "exited"
    /\ trace' = Append(trace, step)

Goto(step, next) ==
    /\ pc' = next
    /\ trace' = Append(trace, step)
    /\ UNCHANGED <<error, status>>

\* get_matches without the conflicts_with declaration.
GetMatchesNoConflict ==
    /\ pc = "get_matches"
    /\ Goto("get_matches", "read")
    /\ UNCHANGED <<stdout, args, input_data, image, thresh, text, inp, ret>>

\* Lines 17-30: get_matches, with `blocks` declared conflicts_with[braille].
GetMatches ==
    /\ pc = "get_matches"
    /\ IF args.blocks /\ args.braille
       THEN Exit("get_matches", "ArgumentConflict",
                 "The argument '--blocks' cannot be used with '--braille'")
       ELSE Goto("get_matches", "read") /\ stdout' = stdout
    /\ UNCHANGED <<args, input_data, image, thresh, text, inp, ret>>

\* Lines 32-49: read standard input (INPUT is ".") or the named file.
ReadInput ==
    /\ pc = "read"
    /\ \/ /\ Exit("read", "Io", "io::Error")
          /\ UNCHANGED input_data
       \/ /\ \E bytes \in Bytes : input_data' = Some(bytes)
          /\ Goto("read", "decode")
          /\ stdout' = stdout
    /\ UNCHANGED <<args, image, thresh, text, inp, ret>>

\* The decode failure reported with a kind of its own.
DecodeOwnKind ==
    /\ pc = "decode"
    /\ IF Get(input_data).decodable
       THEN /\ image' = Get(input_data).image
            /\ Goto("decode", "size")
            /\ stdout' = stdout
       ELSE /\ Exit("decode", "Format", "ImageError")
            /\ UNCHANGED image
    /\ input_data' = None
    /\ UNCHANGED <<args, thresh, text, inp, ret>>

\* Lines 51-61: image::load_from_memory.  The bytes are not used again.
Decode ==
    /\ pc = "decode"
    /\ IF Get(input_data).decodable
       THEN /\ image' = Get(input_data).image
            /\ Goto("decode", "size")
            /\ stdout' = stdout
       ELSE /\ Exit("decode", "Io", "ImageError")
            /\ UNCHANGED image
    /\ input_data' = None
    /\ UNCHANGED <<args, thresh, text, inp, ret>>

\* DynamicImage::resize(dim, dim, CatmullRom): an image that fits dim x dim
\* with the aspect ratio kept, so its longer side is dim; the filter decides
\* the pixels.
Resized(im, dim) ==
    { r \in MainImages :
        /\ r.width <= dim /\ r.height <= dim
        /\ im.width >= im.height => r.width = dim
        /\ im.height >= im.width => r.height = dim }

\* Lines 63-77.
Size ==
    /\ pc = "size"
    /\ IF ~IsSome(args.size)
       THEN /\ Goto("size", "threshold")
            /\ UNCHANGED <<image, stdout>>
       ELSE LET dim == u32_from_str(Get(args.size))
            IN  IF ~IsSome(dim)
                THEN /\ Exit("size", "InvalidValue", "Value for size is not a valid integer")
                     /\ UNCHANGED image
                ELSE /\ \E r \in Resized(Get(image), Get(dim)) : image' = Some(r)
                     /\ Goto("resize", "threshold")
                     /\ stdout' = stdout
    /\ UNCHANGED <<args, input_data, thresh, text, inp, ret>>

\* Lines 79-90.
Threshold ==
    /\ pc = "threshold"
    /\ IF IsSome(args.threshold)
       THEN LET int == u8_from_str(Get(args.threshold))
            IN  IF IsSome(int)
                THEN /\ thresh' = int
                     /\ Goto("threshold", "render")
                     /\ stdout' = stdout
                ELSE /\ Exit("threshold", "InvalidValue",
                             "Value for threshold is not a valid integer")
                     /\ UNCHANGED thresh
       ELSE /\ thresh' = Some(THRESHOLD)
            /\ Goto("threshold", "render")
            /\ stdout' = stdout
    /\ UNCHANGED <<args, input_data, image, text, inp, ret>>

\* The default mode sent to the thresholded block renderer.
SelectThresholded(a, im, t, double) ==
    IF a.braille THEN to_braille(im, t, double)
    ELSE to_blocks(im, t, double)

\* Lines 92-102: the argument of println!, evaluated before anything is written.
Select(a, im, t, double) ==
    IF a.braille THEN to_braille(im, t, double)
    ELSE IF a.blocks THEN to_blocks(im, t, double)
    ELSE to_ascii(im, double)

Render ==
    /\ pc = "render"
    /\ LET double == args.double
       IN  text' = Some(Select(args, Get(image), Get(thresh), double))
    /\ Goto("render", "println")
    /\ UNCHANGED <<args, input_data, image, thresh, stdout, inp, ret>>

\* Lines 94-103: println!("{}", text) writes the text and a newline; main returns.
Println ==
    /\ pc = "println"
    /\ stdout' = stdout \o Get(text) \o <<NL>>
    /\ status' = Some(0)
    /\ pc' = "exited"
    /\ trace' = Append(trace, "println")
    /\ UNCHANGED <<args, input_data, image, thresh, text, error, inp, ret>>

Next ==
    \/ GetMatches
    \/ ReadInput
    \/ Decode
    \/ Size
    \/ Threshold
    \/ Render
    \/ Println

Spec == Init /\ [][Next]_vars

(***************************************************************************)
(* The pure functions, called on their own: main stays where it is.        *)
(***************************************************************************)
MainIdle ==
    /\ args = [input |-> ".", size |-> None, threshold |-> None,
               double |-> FALSE, braille |-> FALSE, blocks |-> FALSE]
    /\ pc = "idle"
    /\ input_data = None
    /\ image = None
    /\ thresh = None
    /\ text = None
    /\ stdout = <<>>
    /\ error = None
    /\ status = None
    /\ trace = <<>>

Return(fn, at, val) ==
    /\ ret' = [fn |-> fn, at |-> at, val |-> val]
    /\ UNCHANGED inp
    /\ UNCHANGED mainVars

Call_to_braille ==
    /\ ret.fn = "none"
    /\ Return("to_braille", <<>>, to_braille(inp.image, inp.t, inp.double))

Call_to_blocks ==
    /\ ret.fn = "none"
    /\ Return("to_blocks", <<>>, to_blocks(inp.image, inp.t, inp.double))

Call_to_ascii ==
    /\ ret.fn = "none"
    /\ Return("to_ascii", <<>>, to_ascii(inp.image, inp.double))

RenderInit ==
    /\ MainIdle
    /\ inp \in [image : RenderImages, t : Thresholds, double : BOOLEAN]
    /\ ret = NoCall

RenderNext ==
    \/ Call_to_braille
    \/ Call_to_blocks
    \/ Call_to_ascii

SpecRender == RenderInit /\ [][RenderNext]_vars

Call_is_dark ==
    /\ ret.fn = "none"
    /\ \E x \in 0 .. MaxProbeX, y \in 0 .. MaxProbeY :
          Return("is_dark", <<x, y>>, is_dark(inp.image, x, y, inp.t))

Call_pixel_brightness ==
    /\ ret.fn = "none"
    /\ \E p \in Positions(inp.image.width, inp.image.height) :
          Return("pixel_brightness", p, pixel_brightness(get_pixel(inp.image, p[1], p[2])))

ClassifyInit ==
    /\ MainIdle
    /\ inp \in [image : { Uniform(1, 1, p) : p \in LumPixels }, t : 0 .. 255, double : {FALSE}]
    /\ ret = NoCall

ClassifyNext ==
    \/ Call_is_dark
    \/ Call_pixel_brightness

SpecClassify == ClassifyInit /\ [][ClassifyNext]_vars

(***************************************************************************)
(* Properties.                                                             *)
(***************************************************************************)
Last(s) == s[Len(s)]

Ran(step) == \E i \in DOMAIN trace : trace[i] = step

\* The rows of a text: the characters between newlines (the text minus the
\* characters after its last newline, which no renderer writes).
RECURSIVE SplitRows(_, _)
SplitRows(s, row) ==
    IF s = <<>> THEN <<>>
    ELSE IF Head(s) = NL THEN <<row>> \o SplitRows(Tail(s), <<>>)
    ELSE SplitRows(Tail(s), Append(row, Head(s)))

NewlineCount(s) == Cardinality({ i \in DOMAIN s : s[i] = NL })

DefaultAscii ==
    /\ args.size = None
    /\ args.threshold = None
    /\ ~args.double
    /\ ~args.braille
    /\ ~args.blocks

FinishedOn(im) ==
    /\ pc = "exited"
    /\ status = Some(0)
    /\ DefaultAscii
    /\ image = Some(im)

\* C1 as stated: in ASCII mode with default options a 1x1 opaque white image
\* writes exactly a space and a newline to standard output, and a 1x1 opaque
\* black image writes exactly '@' and a newline.
C1_AsStated ==
    /\ FinishedOn(Uniform(1, 1, White)) => stdout = <<Char(" "), NL>>
    /\ FinishedOn(Uniform(1, 1, Black)) => stdout = <<Char("@"), NL>>

\* C1, amended: in ASCII mode with default options a 1x1 opaque white image
\* renders as '@' and a newline, a 1x1 opaque black image as a space and a
\* newline, and standard output holds that text followed by println!'s newline.
C1_WhiteIsDenseBlackIsSpace ==
    /\ FinishedOn(Uniform(1, 1, White)) =>
          /\ text = Some(<<Char("@"), NL>>)
          /\ stdout = <<Char("@"), NL, NL>>
    /\ FinishedOn(Uniform(1, 1, Black)) =>
          /\ text = Some(<<Char(" "), NL>>)
          /\ stdout = <<Char(" "), NL, NL>>

C1_Witness == FinishedOn(Uniform(1, 1, White)) /\ stdout # <<>>

SuccessTraces ==
    { <<"get_matches", "read", "decode", "size", "threshold", "render", "println">>,
      <<"get_matches", "read", "decode", "resize", "threshold", "render", "println">> }

\* C3: a run that fails (unreadable input, undecodable bytes, invalid size,
\* invalid threshold) exits with an error and has written nothing to standard
\* output; standard output is written once, by the last step, after reading,
\* decoding, resizing (when asked), threshold parsing and rendering are done.
C3_AllOrNothing ==
    /\ IsSome(error) => /\ pc = "exited"
                        /\ status = Some(1)
                        /\ stdout = <<>>
    /\ (pc = "exited" /\ Last(trace) # "println") => /\ IsSome(error)
                                                     /\ status = Some(1)
                                                     /\ stdout = <<>>
    /\ (IsSome(args.size) /\ ~IsSome(u32_from_str(Get(args.size)))) => stdout = <<>>
    /\ (IsSome(args.threshold) /\ ~IsSome(u8_from_str(Get(args.threshold)))) => stdout = <<>>
    /\ stdout # <<>> => /\ pc = "exited"
                        /\ status = Some(0)
                        /\ trace \in SuccessTraces
                        /\ IsSome(args.size) <=> Ran("resize")
                        /\ IsSome(text)
                        /\ stdout = Get(text) \o <<NL>>
    /\ Cardinality({ i \in DOMAIN trace : trace[i] = "println" }) <= 1
    /\ status = Some(0) => stdout # <<>>

C3_Witness ==
    /\ pc = "exited"
    /\ Last(trace) = "threshold"
    /\ Ran("resize")
    /\ args.threshold = Some(<<"2", "5", "6">>)
    /\ Get(error).kind = "InvalidValue"

\* C6: with both --blocks and --braille the run ends in an error exit at
\* argument parsing: no input is read and no renderer is called.
C6_BlocksAndBrailleConflict ==
    (args.blocks /\ args.braille) =>
        /\ pc \in {"get_matches", "exited"}
        /\ ~Ran("read")
        /\ ~Ran("render")
        /\ input_data = None
        /\ image = None
        /\ text = None
        /\ stdout = <<>>
        /\ pc = "exited" => /\ trace = <<"get_matches">>
                            /\ status = Some(1)
                            /\ Get(error).kind = "ArgumentConflict"

C6_Witness == args.blocks /\ args.braille /\ pc = "exited" /\ status = Some(1)

LoaderFailed(step) == pc = "exited" /\ Last(trace) = step /\ IsSome(error)

AsciiMode == ~args.braille /\ ~args.blocks

\* The character to_ascii's text holds for pixel (x, y), k characters a cell.
AsciiAt(s, w, k, x, y, j) == s[y * (w * k + 1) + x * k + j]

\* C10: in ASCII mode the text does not depend on the threshold: every other
\* threshold gives the same text, each pixel's glyph being
\* ASCII_CHARS[luminance / 32] with an index in 0..7.
C10_AsciiIgnoresThreshold ==
    (IsSome(text) /\ AsciiMode) =>
        LET im == Get(image)
            k  == IF args.double THEN 2 ELSE 1
            s  == Get(text)
        IN  /\ \A t \in Thresholds \cup {1, 254} :
                  Select(args, im, t, args.double) = s
            /\ Len(s) = im.height * (im.width * k + 1)
            /\ \A p \in Positions(im.width, im.height) :
                  LET level == pixel_brightness(get_pixel(im, p[1], p[2])) \div 32
                  IN  /\ level \in 0 .. 7
                      /\ \A j \in 1 .. k :
                            AsciiAt(s, im.width, k, p[1], p[2], j) = Char(ASCII_CHARS[level + 1])

C10_Witness ==
    /\ IsSome(text)
    /\ AsciiMode
    /\ thresh = Some(255)
    /\ \E p \in DOMAIN Get(image).px : Get(image).px[p] = Red
    /\ \E p \in DOMAIN Get(image).px : Get(image).px[p] = Black

Rendered == ret.fn \in {"to_braille", "to_blocks", "to_ascii"}

\* What the called renderer returns for the same image and threshold with
\* the given double-width flag.
RenderedWith(double) ==
    IF ret.fn = "to_braille" THEN to_braille(inp.image, inp.t, double)
    ELSE IF ret.fn = "to_blocks" THEN to_blocks(inp.image, inp.t, double)
    ELSE to_ascii(inp.image, double)

\* Every glyph replaced by two copies of it, every newline left single.
DoubleGlyphs(s) ==
    Flatten([i \in 1 .. Len(s) |-> IF s[i] = NL THEN <<NL>> ELSE <<s[i], s[i]>>])

\* The cells of a row and the rows of the text, by the geometry of the mode.
CellsPerRow == IF ret.fn = "to_ascii" THEN inp.image.width
               ELSE (inp.image.width + 1) \div 2
CellRows    == IF ret.fn = "to_ascii" THEN inp.image.height
               ELSE IF ret.fn = "to_blocks" THEN (inp.image.height + 1) \div 2
               ELSE (inp.image.height + 3) \div 4
PerCell     == IF inp.double THEN 2 ELSE 1

\* C2: for each renderer the text with double-width set is the text without
\* it with every glyph doubled and every newline single: a cell is two equal
\* glyphs when double is set and one glyph otherwise.
C2_Doubling ==
    Rendered =>
        LET rows == SplitRows(ret.val, <<>>)
        IN  /\ inp.double => ret.val = DoubleGlyphs(RenderedWith(FALSE))
            /\ ~inp.double => DoubleGlyphs(ret.val) = RenderedWith(TRUE)
            /\ Len(rows) = CellRows
            /\ \A r \in 1 .. Len(rows) :
                  /\ Len(rows[r]) = CellsPerRow * PerCell
                  /\ inp.double =>
                        \A c \in 1 .. CellsPerRow : rows[r][2 * c - 1] = rows[r][2 * c]

C2_Witness ==
    /\ ret.fn = "to_braille"
    /\ inp.double
    /\ inp.image.width = 3
    /\ inp.image.height = 5
    /\ Len(ret.val) = 10

\* The luminance is_dark compares for a position: that of the pixel there, or
\* of the transparent white pixel when the position is outside the image.
SampleLum(im, p) ==
    IF in_bounds(im, p[1], p[2]) THEN pixel_brightness(get_pixel(im, p[1], p[2]))
    ELSE pixel_brightness(<<255, 255, 255, 0>>)

CellHeight == IF ret.fn = "to_blocks" THEN 2 ELSE 4

\* The positions the claim gives cell (cx, cy): (2cx + dx, H cy + dy), row by row.
ClaimedSamples(cx, cy) ==
    [k \in 1 .. 2 * CellHeight |->
        <<2 * cx + ((k - 1) % 2), CellHeight * cy + ((k - 1) \div 2)>>]

Entry(ix) == IF ret.fn = "to_blocks" THEN BOX(ix) ELSE BRAILLE(ix)

\* The glyph of cell (cx, cy) in the returned text.
GlyphAt(cx, cy) == ret.val[cy * (CellsPerRow * PerCell + 1) + cx * PerCell + 1]

\* C5: in block and braille mode a cell whose sampled positions all have a
\* luminance below the threshold is the table entry with every index 1, and a
\* cell whose sampled positions all have a luminance at or above it is the
\* entry with every index 0.
C5_AllDarkAllLight ==
    ret.fn \in {"to_blocks", "to_braille"} =>
        \A cx \in 0 .. CellsPerRow - 1, cy \in 0 .. CellRows - 1 :
            LET smp == ClaimedSamples(cx, cy)
                n   == Len(smp)
            IN  /\ (\A k \in 1 .. n : SampleLum(inp.image, smp[k]) < inp.t)
                      => GlyphAt(cx, cy) = Entry([k \in 1 .. n |-> 1])
                /\ (\A k \in 1 .. n : SampleLum(inp.image, smp[k]) >= inp.t)
                      => GlyphAt(cx, cy) = Entry([k \in 1 .. n |-> 0])

C5_Witness ==
    /\ ret.fn = "to_braille"
    /\ inp.image.height = 5
    /\ inp.image.width = 2
    /\ inp.t = 37
    /\ ret.val[1] = BRAILLE(<<1, 1, 1, 1, 1, 1, 1, 1>>)
    /\ ret.val[3] # BRAILLE(<<1, 1, 1, 1, 1, 1, 1, 1>>)

Probed == inp.image.px[ret.at]

\* C4: for a position outside the image is_dark takes the pixel
\* (255, 255, 255, 0) and returns 0, whatever the threshold in 0..255.
C4_OutsideIsLight ==
    (ret.fn = "is_dark" /\ ~in_bounds(inp.image, ret.at[1], ret.at[2])) =>
        /\ inp.t \in 0 .. 255
        /\ ret.val = (IF pixel_brightness(<<255, 255, 255, 0>>) < inp.t THEN 1 ELSE 0)
        /\ ret.val = 0

C4_Witness ==
    /\ ret.fn = "is_dark"
    /\ ret.at = <<1, 3>>
    /\ inp.t = 255
    /\ inp.image.px[<<0, 0>>] = <<0, 0, 0, 255>>
    /\ ret.val = 0

\* The weighted sum 0.299 R + 0.587 G + 0.114 B in thousandths, exactly.
Weighted1000(pixel) == 299 * pixel[1] + 587 * pixel[2] + 114 * pixel[3]

\* C7 as stated: the luminance of pixel_brightness and is_dark is the weighted
\* sum 0.299 R + 0.587 G + 0.114 B truncated toward zero, in 0..255, whatever
\* A is, and 76 for (255, 0, 0, 255).
C7_AsStated ==
    /\ ret.fn = "pixel_brightness" =>
          /\ ret.val = Weighted1000(Probed) \div 1000
          /\ ret.val \in 0 .. 255
          /\ Probed = Red => ret.val = 76
    /\ (ret.fn = "is_dark" /\ in_bounds(inp.image, ret.at[1], ret.at[2])) =>
          ret.val = (IF Weighted1000(Probed) \div 1000 < inp.t THEN 1 ELSE 0)

\* C7, amended: the luminance of pixel_brightness and is_dark is the weighted
\* sum evaluated in single precision (each product and each sum rounded to
\* f32) and truncated toward zero, in 0..255, whatever A is, and 76 for
\* (255, 0, 0, 255); it is the exact weighted sum truncated toward zero, or
\* one less than it when the exact sum is a whole number.
C7_LuminanceInSinglePrecision ==
    /\ ret.fn = "pixel_brightness" =>
          LET exact == Weighted1000(Probed) \div 1000
              whole == Weighted1000(Probed) % 1000 = 0
          IN  /\ ret.val = exact \/ (whole /\ ret.val = exact - 1)
              /\ ret.val \in 0 .. 255
              /\ \A a \in {0, 255} :
                    ret.val = pixel_brightness(<<Probed[1], Probed[2], Probed[3], a>>)
              /\ Probed = Red => ret.val = 76
              /\ Probed = Gray => ret.val = 36
    /\ (ret.fn = "is_dark" /\ in_bounds(inp.image, ret.at[1], ret.at[2])) =>
          LET exact == Weighted1000(Probed) \div 1000
              whole == Weighted1000(Probed) % 1000 = 0
              dark(l) == IF l < inp.t THEN 1 ELSE 0
          IN  /\ ret.val = dark(exact) \/ (whole /\ ret.val = dark(exact - 1))
              /\ \A a \in {0, 255} :
                    ret.val = is_dark(Uniform(1, 1, <<Probed[1], Probed[2], Probed[3], a>>),
                                      0, 0, inp.t)

C7_Witness ==
    /\ ret.fn = "pixel_brightness"
    /\ Probed = Gray
    /\ ret.val = 36
=============================================================================
